---- MODULE Spec2Model ----
(***************************************************************************)
(* The attribute splitter of proc_nuhound: Scanner (src/src/scanner.rs)    *)
(* and analyse / process_pairs / process_quotes (src/src/lib.rs).          *)
(*                                                                         *)
(* One scan is a run of the state machine.  A character is a string of     *)
(* length one, the input a sequence of characters.  The Rust call stack    *)
(* of process_pairs / process_quotes activations is the variable stack;    *)
(* one action is one iteration of the loop of the innermost activation     *)
(* (analyse itself when the stack is empty), together with the entry of    *)
(* the helper it calls or the return it makes.                             *)
(***************************************************************************)
EXTENDS Integers, Sequences, FiniteSets, TLC

VARIABLES
  char_string,  \* Scanner::char_string, the input (scanner.rs:53)
  index,        \* Scanner::index, the cursor (scanner.rs:55)
  mark,         \* Scanner::mark, start of the pending attribute (scanner.rs:57)
  attributes,   \* Scanner::attributes, the recorded spans (scanner.rs:56)
  stack,        \* the open process_pairs / process_quotes calls, innermost last
  pc,           \* "scan" while analyse runs, "done" once it returned, "panic"
  failure,      \* what panicked: "pipe" (lib.rs:120), "unwrap" (lib.rs:70, 90),
                \* "insufficient" (lib.rs:141, 163, 182)
  output,       \* the vector analyse returned (lib.rs:133)
  caller,       \* who called analyse: a builder, or "analyse" for a direct call
  built         \* what the calling builder returned

vars == <<char_string, index, mark, attributes, stack, pc, failure, output, caller, built>>

----------------------------------------------------------------------------
(* Bounds of the inputs that are enumerated.                               *)

MaxLen == 3
MaxAngleLen == 5
MaxNestLen == 5
MaxQuoteLen == 4
MaxPipeLen == 4
MaxPlainLen == 5
MaxBuilderLen == 2
MaxBuilderArgsLen == 5

(* Option<char>::None, the end-marker; no character is equal to it.        *)
None == "None"

Brackets == {"(", ")", "[", "]", "{", "}", "<", ">"}
Quotes == {"'", "\""}
Whitespace == {" ", "\t", "\n"}

AllChars == Brackets \cup Quotes \cup {"\\", "|", ",", " ", "a"}
AngleChars == {"(", ")", "<", ">", ",", "a"}
NestChars == {"(", ")", "{", "}", ","}
QuoteChars == {"'", "\"", "\\", ",", "(", ")", "a"}
PipeChars == {"|", " ", ",", "a", "{", "}"}
PlainChars == {",", " ", "a", "\\"}
BuilderChars == {",", " ", "a", "\""}

StringsUpTo(alphabet, n) == UNION {[1..k -> alphabet] : k \in 0..n}

----------------------------------------------------------------------------
(* The inputs of the repository's tests and of the documented examples.    *)

TestNormal ==
  <<"t","e","x","t",".","p","a","r","s","e",":",":","<","u","3","2",">","(",")",",",
    " ","\n"," "," ","\"","O","h"," ","d","e","a","r"," ","-"," ","'","{","}","'",
    " ","c","o","u","l","d"," ","n","o","t","\"",","," ","\n"," ","t","e","x","t">>

TestExtended ==
  <<" ","t","e","x","t",".","p","a","r","s","e",":",":","<","u","3","2",","," ",
    "c","h","a","r",">","(","3","5"," ","<"," ","8",")",","," ","r","#","\"","O","h",
    " ","d","e","a","r"," ","-"," ","'","{","}","'"," ","c","o","u","l","d",","," ",
    "n","o","t","\"","#",","," ","t","e","x","t"," "," "," ">>

ExLess == <<"x"," ","<"," ","8",","," ","y">>
ExNestedAngle == <<"<","a","<","b",">",","," ","c",">">>
ExMixed == <<"f","(","[","a",","," ","{","b",","," ","c","}","]",")",","," ","d">>
ExEscaped == <<"\"","a","\\","\"","b","\"",","," ","c">>
ExEscapedComma == <<"\"","a","\\","\"",","," ","b","\"",","," ","c">>
ExQuoted == <<"\"","a",","," ","b","\"",","," ","c">>
ExCall == <<"f","(","1",","," ","2",")",","," ","\"","o","k","\"">>
ExClosure == <<"v",","," ","{","|","n","|"," ","n"," ","+"," ","3","}">>
ExBarePipe == <<"|","x","|">>
ExSpacePipe == <<"a",","," ","|","x","|">>
ExQuoteInCall == <<"f","(","\"",")","\"",","," ","a",")",","," ","b">>
ExOpenParen == <<"f","(","a",","," ","b">>
ExNestedCall == <<"g","(","(","a",")",","," ","b",")",","," ","c">>
ExQuoteMix == <<"\"","O","h"," ","-"," ","'","{","}","'"," ","c","o","u","l","d",","," ","n","o","t","\"",","," ","t">>
ExLessInCall == <<"(","3","5"," ","<"," ","8",")",","," ","(","a"," ",">"," ","b",","," ","c",")",","," ","d">>

Examples ==
  {TestNormal, TestExtended, ExLess, ExNestedAngle, ExMixed, ExEscaped,
   ExEscapedComma, ExQuoted, ExCall, ExClosure, ExBarePipe, ExSpacePipe,
   ExQuoteInCall, ExOpenParen, ExNestedCall, ExQuoteMix, ExLessInCall}

Inputs ==
  StringsUpTo(AllChars, MaxLen) \cup StringsUpTo(AngleChars, MaxAngleLen)
    \cup StringsUpTo(NestChars, MaxNestLen)
    \cup StringsUpTo(QuoteChars, MaxQuoteLen) \cup StringsUpTo(PipeChars, MaxPipeLen)
    \cup StringsUpTo(PlainChars, MaxPlainLen) \cup Examples

(* The inputs handed to the builders.                                      *)
BuilderInputs ==
  StringsUpTo(AllChars, MaxBuilderLen) \cup StringsUpTo(BuilderChars, MaxBuilderArgsLen)
    \cup Examples

----------------------------------------------------------------------------
(* The symmetric pairs, as the HashMap analyse builds from PAIRS.          *)

(* PAIRS without the angle brackets. *)
PAIRS_NoAngle == [c \in {"(", "[", "{"} |->
                    CASE c = "(" -> ")" [] c = "[" -> "]" [] c = "{" -> "}"]

PAIRS == [c \in {"(", "[", "{", "<"} |->
            CASE c = "(" -> ")" [] c = "[" -> "]" [] c = "{" -> "}" [] c = "<" -> ">"]

contains_key(c) == c \in DOMAIN PAIRS

is_whitespace(c) == c \in Whitespace

(* str::trim: drop the leading and the trailing whitespace.                *)
RECURSIVE trim_start(_)
trim_start(s) ==
  IF s # <<>> /\ is_whitespace(Head(s)) THEN trim_start(Tail(s)) ELSE s

RECURSIVE trim_end(_)
trim_end(s) ==
  IF s # <<>> /\ is_whitespace(s[Len(s)]) THEN trim_end(SubSeq(s, 1, Len(s) - 1)) ELSE s

trim(s) == trim_end(trim_start(s))

----------------------------------------------------------------------------
(* The Scanner.  st is a record of the scan's state; char_string[i] of the *)
(* Rust code (from 0) is st.char_string[i + 1] here.                       *)

length(st) == Len(st.char_string)

ScannerNew(s) ==
  [char_string |-> s, index |-> 0, mark |-> 0, attributes |-> <<>>,
   stack |-> <<>>, pc |-> "scan", failure |-> "none", output |-> <<>>]

(* Scanner::next that steps over a character after a backslash. *)
next_SkipsEscaped(st) ==
  IF st.index < length(st)
    THEN IF st.char_string[st.index + 1] = "\\" /\ st.index + 1 < length(st)
           THEN [st EXCEPT !.index = @ + 2]
           ELSE [st EXCEPT !.index = @ + 1]
    ELSE st

(* Scanner::next that returns the character and leaves the cursor. *)
next_Stuck(st) == st

(* Scanner::next: the state after the call, and the value it returns.      *)
next(st) == IF st.index < length(st) THEN [st EXCEPT !.index = @ + 1] ELSE st

next_value(st) == IF st.index < length(st) THEN st.char_string[st.index + 1] ELSE None

get_current(st) == IF st.index < length(st) THEN st.char_string[st.index] ELSE None

(* save_attribute that shortens by a comma and a blank. *)
save_attribute_ShortenTwice(st, rshorten) ==
  [st EXCEPT !.attributes = Append(@, [start |-> st.mark, end |-> st.index - 2 * rshorten]),
             !.mark = st.index]

(* save_attribute that moves the mark to the end of the span. *)
save_attribute_MarkAtEnd(st, rshorten) ==
  [st EXCEPT !.attributes = Append(@, [start |-> st.mark, end |-> st.index - rshorten]),
             !.mark = st.index - rshorten]

(* save_attribute that does not shorten the attribute. *)
save_attribute_Unshortened(st, rshorten) ==
  [st EXCEPT !.attributes = Append(@, [start |-> st.mark, end |-> st.index]),
             !.mark = st.index]

save_attribute(st, rshorten) ==
  [st EXCEPT !.attributes = Append(@, [start |-> st.mark, end |-> st.index - rshorten]),
             !.mark = st.index]

get_string_attributes(st) ==
  [i \in 1..Len(st.attributes) |->
     trim(SubSeq(st.char_string, st.attributes[i].start + 1, st.attributes[i].end))]

RECURSIVE pipe_loop(_, _)
pipe_loop(st, pointer) ==
  IF pointer > st.mark
    THEN IF ~is_whitespace(st.char_string[pointer + 1]) THEN TRUE
         ELSE pipe_loop(st, pointer - 1)
    ELSE FALSE

is_pipe_valid(st) == pipe_loop(st, st.index - 1)

is_escaped(st) == IF st.index = 0 THEN FALSE ELSE st.char_string[st.index] = "\\"

----------------------------------------------------------------------------
(* panic!: the scan is abandoned where it stands.                          *)

(* A failure that is noted while the scan goes on. *)
Panic_Continue(st, why) == [st EXCEPT !.failure = why]

Panic(st, why) == [st EXCEPT !.pc = "panic", !.failure = why]

(* The first statement of process_pairs and of process_quotes: the frame   *)
(* of the new activation, or the panic of unwrap() on None.                *)
(* process_pairs that waits for the opener instead of its partner. *)
process_pairs_OpenerAsExit(st) ==
  IF get_current(st) = None THEN Panic(st, "unwrap")
  ELSE IF ~contains_key(get_current(st)) THEN Panic(st, "key")
  ELSE [st EXCEPT !.stack = Append(@, [fn |-> "process_pairs", exit |-> get_current(st)])]

process_pairs(st) ==
  IF get_current(st) = None THEN Panic(st, "unwrap")
  ELSE IF ~contains_key(get_current(st)) THEN Panic(st, "key")
  ELSE [st EXCEPT !.stack = Append(@, [fn |-> "process_pairs", exit |-> PAIRS[get_current(st)]])]

process_quotes(st) ==
  IF get_current(st) = None THEN Panic(st, "unwrap")
  ELSE [st EXCEPT !.stack = Append(@, [fn |-> "process_quotes", exit |-> get_current(st)])]

Return(st) == [st EXCEPT !.stack = SubSeq(@, 1, Len(@) - 1)]

Top(st) == st.stack[Len(st.stack)]

(* process_pairs that takes < for an opener like the others. *)
PairsArm_LessOpens(st) ==
  LET n == next_value(st) IN
  IF n = None THEN "end"
  ELSE IF contains_key(n) THEN "open"
  ELSE IF n = Top(st).exit THEN "exit"
  ELSE "other"

(* The arm of the match that one iteration of each loop takes.             *)
PairsArm(st) ==
  LET n == next_value(st) IN
  IF n = None THEN "end"
  ELSE IF n = "<" THEN "less"
  ELSE IF contains_key(n) THEN "open"
  ELSE IF n = Top(st).exit THEN "exit"
  ELSE "other"

(* process_pairs that hands a quoted string to process_quotes. *)
PairsStep_ReadsQuotes(st) ==
  LET arm == PairsArm(st) IN
  CASE arm = "less" -> next(st)
    [] arm = "open" -> process_pairs(next(st))
    [] arm = "exit" -> Return(next(st))
    [] arm = "other" ->
         IF next_value(st) \in {"'", "\""} THEN process_quotes(next(st)) ELSE next(st)
    [] arm = "end" -> Return(next(st))

(* process_pairs that does not recurse into a nested pair. *)
PairsStep_NoRecursion(st) ==
  LET arm == PairsArm(st) IN
  CASE arm = "less" -> next(st)
    [] arm = "open" -> next(st)
    [] arm = "exit" -> Return(next(st))
    [] arm = "other" -> next(st)
    [] arm = "end" -> Return(next(st))

(* process_pairs that rejects a pipe as the first character of its region. *)
PairsStep_PipeChecked(st) ==
  LET arm == PairsArm(st) IN
  CASE arm = "less" -> next(st)
    [] arm = "open" -> process_pairs(next(st))
    [] arm = "exit" -> Return(next(st))
    [] arm = "other" ->
         IF next_value(st) = "|" /\ st.index <= st.mark + 1
           THEN Panic(next(st), "pipe") ELSE next(st)
    [] arm = "end" -> Return(next(st))

PairsStep(st) ==
  LET arm == PairsArm(st) IN
  CASE arm = "less" -> next(st)
    [] arm = "open" -> process_pairs(next(st))
    [] arm = "exit" -> Return(next(st))
    [] arm = "other" -> next(st)
    [] arm = "end" -> Return(next(st))

(* process_quotes that closes on either quote character. *)
QuotesArm_AnyQuote(st) ==
  LET n == next_value(st) IN
  IF n = None THEN "end"
  ELSE IF n \in {"'", "\""} /\ ~is_escaped(next(st)) THEN "close"
  ELSE "other"

QuotesArm(st) ==
  LET n == next_value(st) IN
  IF n = None THEN "end"
  ELSE IF n = Top(st).exit /\ ~is_escaped(next(st)) THEN "close"
  ELSE "other"

QuotesStep(st) ==
  LET arm == QuotesArm(st) IN
  CASE arm = "close" -> Return(next(st))
    [] arm = "other" -> next(st)
    [] arm = "end" -> Return(next(st))

AnalyseArm(st) ==
  LET n == next_value(st) IN
  IF n = None THEN "end"
  ELSE IF contains_key(n) THEN "open"
  ELSE IF n = "'" /\ ~is_escaped(next(st)) THEN "squote"
  ELSE IF n = "\"" /\ ~is_escaped(next(st)) THEN "dquote"
  ELSE IF n = "|" THEN "pipe"
  ELSE IF n = "," THEN "comma"
  ELSE "other"

(* analyse that returns without closing the pending attribute. *)
Finish_NoFlush(st) ==
  [st EXCEPT !.pc = "done", !.output = get_string_attributes(st)]

Finish(st) ==
  LET s == save_attribute(st, 0) IN
  [s EXCEPT !.pc = "done", !.output = get_string_attributes(s)]

AnalyseStep(st) ==
  LET arm == AnalyseArm(st) IN
  CASE arm = "open" -> process_pairs(next(st))
    [] arm = "squote" -> process_quotes(next(st))
    [] arm = "dquote" -> process_quotes(next(st))
    [] arm = "pipe" -> IF ~is_pipe_valid(next(st)) THEN Panic(next(st), "pipe") ELSE next(st)
    [] arm = "comma" -> save_attribute(next(st), 1)
    [] arm = "other" -> next(st)
    [] arm = "end" -> Finish(next(st))

(* Which loop is running. *)
Where(st) ==
  IF st.pc # "scan" THEN st.pc
  ELSE IF st.stack = <<>> THEN "analyse"
  ELSE Top(st).fn

Step(st) ==
  CASE Where(st) = "analyse" -> AnalyseStep(st)
    [] Where(st) = "process_pairs" -> PairsStep(st)
    [] Where(st) = "process_quotes" -> QuotesStep(st)

(* analyse as a function of its input: the final state of the scan.        *)
RECURSIVE Run(_)
Run(st) == IF st.pc # "scan" THEN st ELSE Run(Step(st))

analyse(s) == Run(ScannerNew(s))

----------------------------------------------------------------------------
(* The builders, from the point where analyse has returned attributes.     *)
(* The generated text is the template with attributes[0] in place of {0}   *)
(* and the joined message in place of every {1} (custom_builder: {0}).     *)

NotBuilt == [result |-> "none", template |-> "none", expr |-> <<>>, message |-> <<>>]

Insufficient == [result |-> "Contains insufficient parameters", template |-> "none",
                 expr |-> <<>>, message |-> <<>>]

(* [String]::join(", ") *)
RECURSIVE join(_)
join(strings) ==
  IF strings = <<>> THEN <<>>
  ELSE IF Len(strings) = 1 THEN strings[1]
  ELSE strings[1] \o <<",", " ">> \o join(Tail(strings))

(* convert_builder that asks for one attribute only. *)
convert_builder_OneSuffices(attrs) ==
  IF Len(attrs) < 1 THEN Insufficient
  ELSE [result |-> "ok", template |-> "report(|reason| link(inform, cause))",
        expr |-> attrs[1], message |-> join(Tail(attrs))]

convert_builder(attrs) ==
  IF Len(attrs) < 2 THEN Insufficient
  ELSE [result |-> "ok", template |-> "report(|reason| link(inform, cause))",
        expr |-> attrs[1], message |-> join(Tail(attrs))]

examine_builder(attrs) ==
  IF Len(attrs) < 2 THEN Insufficient
  ELSE [result |-> "ok", template |-> "report(|cause| new(inform).caused_by(cause))",
        expr |-> attrs[1], message |-> join(Tail(attrs))]

custom_builder(attrs) ==
  IF attrs = <<>> THEN Insufficient
  ELSE [result |-> "ok", template |-> "Err(new(inform))",
        expr |-> <<>>, message |-> join(attrs)]

----------------------------------------------------------------------------
(* The state machine.                                                      *)

Cur ==
  [char_string |-> char_string, index |-> index, mark |-> mark,
   attributes |-> attributes, stack |-> stack, pc |-> pc, failure |-> failure,
   output |-> output]

Set(st) ==
  /\ char_string' = st.char_string
  /\ index' = st.index
  /\ mark' = st.mark
  /\ attributes' = st.attributes
  /\ stack' = st.stack
  /\ pc' = st.pc
  /\ failure' = st.failure
  /\ output' = st.output
  /\ UNCHANGED <<caller, built>>

Init ==
  /\ char_string \in Inputs
  /\ index = 0
  /\ mark = 0
  /\ attributes = <<>>
  /\ stack = <<>>
  /\ pc = "scan"
  /\ failure = "none"
  /\ output = <<>>
  /\ caller = "analyse"
  /\ built = NotBuilt

AnalyseOpen == Where(Cur) = "analyse" /\ AnalyseArm(Cur) = "open" /\ Set(AnalyseStep(Cur))
AnalyseSingleQuote == Where(Cur) = "analyse" /\ AnalyseArm(Cur) = "squote" /\ Set(AnalyseStep(Cur))
AnalyseDoubleQuote == Where(Cur) = "analyse" /\ AnalyseArm(Cur) = "dquote" /\ Set(AnalyseStep(Cur))
AnalysePipe == Where(Cur) = "analyse" /\ AnalyseArm(Cur) = "pipe" /\ Set(AnalyseStep(Cur))
AnalyseComma == Where(Cur) = "analyse" /\ AnalyseArm(Cur) = "comma" /\ Set(AnalyseStep(Cur))
AnalyseOther == Where(Cur) = "analyse" /\ AnalyseArm(Cur) = "other" /\ Set(AnalyseStep(Cur))
AnalyseEnd == Where(Cur) = "analyse" /\ AnalyseArm(Cur) = "end" /\ Set(AnalyseStep(Cur))

PairsLess == Where(Cur) = "process_pairs" /\ PairsArm(Cur) = "less" /\ Set(PairsStep(Cur))
PairsOpen == Where(Cur) = "process_pairs" /\ PairsArm(Cur) = "open" /\ Set(PairsStep(Cur))
PairsExit == Where(Cur) = "process_pairs" /\ PairsArm(Cur) = "exit" /\ Set(PairsStep(Cur))
PairsOther == Where(Cur) = "process_pairs" /\ PairsArm(Cur) = "other" /\ Set(PairsStep(Cur))
PairsEnd == Where(Cur) = "process_pairs" /\ PairsArm(Cur) = "end" /\ Set(PairsStep(Cur))

QuotesClose == Where(Cur) = "process_quotes" /\ QuotesArm(Cur) = "close" /\ Set(QuotesStep(Cur))
QuotesOther == Where(Cur) = "process_quotes" /\ QuotesArm(Cur) = "other" /\ Set(QuotesStep(Cur))
QuotesEnd == Where(Cur) = "process_quotes" /\ QuotesArm(Cur) = "end" /\ Set(QuotesStep(Cur))

Next ==
  \/ AnalyseOpen \/ AnalyseSingleQuote \/ AnalyseDoubleQuote \/ AnalysePipe
  \/ AnalyseComma \/ AnalyseOther \/ AnalyseEnd
  \/ PairsLess \/ PairsOpen \/ PairsExit \/ PairsOther \/ PairsEnd
  \/ QuotesClose \/ QuotesOther \/ QuotesEnd

Spec == Init /\ [][Next]_vars

----------------------------------------------------------------------------
(* The builders: each calls analyse on its item and, once analyse has      *)
(* returned, checks the number of attributes and fills its template.       *)

InitBuilder ==
  /\ char_string \in BuilderInputs
  /\ index = 0
  /\ mark = 0
  /\ attributes = <<>>
  /\ stack = <<>>
  /\ pc = "scan"
  /\ failure = "none"
  /\ output = <<>>
  /\ caller \in {"convert_builder", "examine_builder", "custom_builder"}
  /\ built = NotBuilt

Build(result) ==
  /\ built' = result
  /\ pc' = IF result.result = "ok" THEN "built" ELSE "panic"
  /\ failure' = IF result.result = "ok" THEN failure ELSE "insufficient"
  /\ UNCHANGED <<char_string, index, mark, attributes, stack, output, caller>>

ConvertBuilder == pc = "done" /\ caller = "convert_builder" /\ Build(convert_builder(output))
ExamineBuilder == pc = "done" /\ caller = "examine_builder" /\ Build(examine_builder(output))
CustomBuilder == pc = "done" /\ caller = "custom_builder" /\ Build(custom_builder(output))

NextBuilder == Next \/ ConvertBuilder \/ ExamineBuilder \/ CustomBuilder

BuilderSpec == InitBuilder /\ [][NextBuilder]_vars

----------------------------------------------------------------------------
TypeOK ==
  /\ index \in 0..Len(char_string)
  /\ mark \in 0..index
  /\ pc \in {"scan", "done", "panic", "built"}
  /\ failure \in {"none", "pipe", "unwrap", "key", "insufficient"}

----------------------------------------------------------------------------
(* Notions of the input text that the claims are stated in.  Positions of  *)
(* the text count from 1.                                                  *)

Has(s, set) == \E k \in 1..Len(s) : s[k] \in set

Commas(s) == {k \in 1..Len(s) : s[k] = ","}

Min(set) == CHOOSE m \in set : \A n \in set : m <= n

(* The comma at position k of the input closed an attribute.               *)
BoundaryAt(k) == \E i \in 1..Len(attributes) : attributes[i].end + 1 = k

(* The pieces of s from position from on, cut at the positions in cuts.    *)
RECURSIVE Pieces(_, _, _)
Pieces(s, cuts, from) ==
  LET ahead == {c \in cuts : c >= from} IN
  IF ahead = {} THEN <<SubSeq(s, from, Len(s))>>
  ELSE <<SubSeq(s, from, Min(ahead) - 1)>> \o Pieces(s, cuts, Min(ahead) + 1)

SplitAt(s, cuts) == LET p == Pieces(s, cuts, 1) IN [i \in 1..Len(p) |-> trim(p[i])]

NaiveSplit(s) == SplitAt(s, Commas(s))

(* No bracket, no quote, no pipe.                                          *)
Plain(s) == ~Has(s, Brackets \cup Quotes \cup {"|"})

(* Some < and otherwise no bracket, no quote, no pipe: every < is a lone   *)
(* less-than at top level.                                                 *)
LoneLess(s) == Has(s, {"<"}) /\ ~Has(s, (Brackets \ {"<"}) \cup Quotes \cup {"|"})

FirstOf(s, set) == Min({k \in 1..Len(s) : s[k] \in set})

----------------------------------------------------------------------------
(* C1: an unterminated bracket or quote region never crashes the lexer,    *)
(* the opener being the last character of the input included: the scan     *)
(* never ends in the panic of unwrap() on None.                            *)
C1_UnterminatedNeverCrashes == ~(pc = "panic" /\ failure = "unwrap")

(* C2 as stated: a lone < at top level starts no bracket region, so every  *)
(* comma of such an input is an attribute boundary and analyse returns the *)
(* naive split ("x < 8, y" gives "x < 8" and "y").                         *)
C2_LoneLessStartsNoRegion ==
  (pc = "done" /\ LoneLess(char_string)) => output = NaiveSplit(char_string)

(* C2 as amended: a lone < at top level does start a bracket region, which *)
(* runs to the end of the input; when analyse returns, the commas before   *)
(* the first < are the only attribute boundaries.                          *)
C2_LoneLessOpensRegion ==
  (pc = "done" /\ LoneLess(char_string)) =>
    output = SplitAt(char_string,
                     {k \in Commas(char_string) : k < FirstOf(char_string, {"<"})})

C2_Witness ==
  /\ pc = "done"
  /\ LoneLess(char_string)
  /\ \E k \in Commas(char_string) : k > FirstOf(char_string, {"<"})
  /\ \E k \in Commas(char_string) : k < FirstOf(char_string, {"<"})

(* C3: inside a quote region a quote of the opening kind that follows a    *)
(* backslash does not close the region.  On an input without brackets and  *)
(* pipes, whose first quote character is not itself escaped, no comma      *)
(* between that quote and the first unescaped quote of its kind after it   *)
(* is an attribute boundary.                                               *)
UnescapedAt(s, k) == k = 1 \/ s[k - 1] # "\\"

FirstQuote(s) == FirstOf(s, Quotes)

ClosingQuote(s, p) ==
  LET closers == {e \in (p + 1)..Len(s) : s[e] = s[p] /\ UnescapedAt(s, e)} IN
  IF closers = {} THEN Len(s) + 1 ELSE Min(closers)

C3_EscapedQuoteDoesNotClose ==
  (/\ Has(char_string, Quotes)
   /\ ~Has(char_string, Brackets \cup {"|"})
   /\ UnescapedAt(char_string, FirstQuote(char_string))) =>
    \A k \in Commas(char_string) :
      (FirstQuote(char_string) < k /\ k < ClosingQuote(char_string, FirstQuote(char_string)))
        => ~BoundaryAt(k)

(* C4: when the top-level driver meets a pipe, is_pipe_valid is false      *)
(* exactly when only whitespace (or nothing) lies between the last         *)
(* attribute boundary and the pipe, and analyse fails exactly then.        *)
PipeIsFirst == \A p \in (mark + 1)..index : is_whitespace(char_string[p])

C4_PipeFirstFails ==
  (Where(Cur) = "analyse" /\ AnalyseArm(Cur) = "pipe") =>
    /\ is_pipe_valid(next(Cur)) = ~PipeIsFirst
    /\ (AnalyseStep(Cur).pc = "panic") = PipeIsFirst

(* C8: on an input without brackets, quotes and pipes analyse returns the  *)
(* input split at every comma, each piece trimmed, in order.               *)
C8_PlainIsNaiveSplit ==
  Plain(char_string) => /\ pc # "panic"
                        /\ pc = "done" => output = NaiveSplit(char_string)

C8_Witness ==
  /\ pc = "done"
  /\ Plain(char_string)
  /\ Len(output) >= 3
  /\ \E i \in 1..Len(output) :
       /\ output[i] # <<>>
       /\ Len(output[i]) < attributes[i].end - attributes[i].start

----------------------------------------------------------------------------
(* Nesting of the text.  Closer is the table of the four pairs as the text *)
(* is read, whatever the lexer does with them.                             *)

Closer(c) == CASE c = "(" -> ")" [] c = "[" -> "]" [] c = "{" -> "}" [] c = "<" -> ">"

Openers3 == {"(", "[", "{"}
Openers4 == {"(", "[", "{", "<"}

ClosersOf(openers) == {Closer(o) : o \in openers}

(* The closers still expected after s[1..n], brackets being those of       *)
(* openers; a closer that is not the expected one is skipped.              *)
RECURSIVE Expect(_, _, _)
Expect(s, n, openers) ==
  IF n = 0 THEN <<>>
  ELSE LET e == Expect(s, n - 1, openers) IN
       IF s[n] \in openers THEN Append(e, Closer(s[n]))
       ELSE IF e # <<>> /\ s[n] = e[Len(e)] THEN SubSeq(e, 1, Len(e) - 1)
       ELSE e

(* s is properly nested over the brackets of openers.                      *)
WellNested(s, openers) ==
  /\ Expect(s, Len(s), openers) = <<>>
  /\ \A n \in 1..Len(s) :
       s[n] \in ClosersOf(openers) =>
         LET e == Expect(s, n - 1, openers) IN e # <<>> /\ e[Len(e)] = s[n]

(* Position k lies strictly inside a bracket pair s[i] .. s[j] of any of   *)
(* the four kinds whose interior is properly nested over openers.          *)
InsidePair(s, k, i, j, openers) ==
  /\ i < k /\ k < j
  /\ s[i] \in Openers4
  /\ s[j] = Closer(s[i])
  /\ WellNested(SubSeq(s, i + 1, j - 1), openers)

(* C5 as stated: a comma strictly inside a balanced bracket pair of any of *)
(* the four kinds, pairs nested in it being of any of the four kinds too   *)
(* (as in <a<b>, c>), is no attribute boundary.                            *)
C5_CommaInsideBalancedPair ==
  \A k \in Commas(char_string) :
    (\E i \in 1..(k - 1) : \E j \in (k + 1)..Len(char_string) :
        InsidePair(char_string, k, i, j, Openers4))
      => ~BoundaryAt(k)

(* C5 as amended: a comma that no quote character precedes and that lies   *)
(* strictly inside a bracket pair of any of the four kinds whose interior  *)
(* is properly nested over (), [] and {} (< and > being ordinary           *)
(* characters there, and the interior of a <> pair holding no >) is no     *)
(* attribute boundary; and an attribute is only ever closed while no       *)
(* bracket or quote region is open.                                        *)
InsideRegionPair(s, k) ==
  \E i \in 1..(k - 1) : \E j \in (k + 1)..Len(s) :
    /\ InsidePair(s, k, i, j, Openers3)
    /\ s[i] = "<" => ~Has(SubSeq(s, i + 1, j - 1), {">"})

C5_CommaInsideRegionPair ==
  /\ [](\A k \in Commas(char_string) :
          (~Has(SubSeq(char_string, 1, k - 1), Quotes) /\ InsideRegionPair(char_string, k))
            => ~BoundaryAt(k))
  /\ [][attributes' # attributes => (stack = <<>> /\ stack' = <<>>)]_vars

C5_Witness ==
  /\ pc = "done"
  /\ Len(attributes) >= 2
  /\ \E k \in Commas(char_string) :
       /\ ~Has(SubSeq(char_string, 1, k - 1), Quotes)
       /\ \E i \in 1..(k - 1) : \E j \in (k + 1)..Len(char_string) :
            /\ InsidePair(char_string, k, i, j, Openers3)
            /\ Has(SubSeq(char_string, i + 1, j - 1), Openers3)

(* C6: a comma inside a quoted string, between an opening quote and its    *)
(* matching closing quote, wherever the string stands, is no attribute     *)
(* boundary.  The strings of the text are read from the left: a quote      *)
(* opens one, the next unescaped quote of the same kind closes it.         *)
RECURSIVE QuoteOpen(_, _)
QuoteOpen(s, n) ==
  IF n = 0 THEN None
  ELSE LET q == QuoteOpen(s, n - 1) IN
       IF q = None THEN (IF s[n] \in Quotes /\ UnescapedAt(s, n) THEN s[n] ELSE None)
       ELSE IF s[n] = q /\ UnescapedAt(s, n) THEN None
       ELSE q

InString(s, k) ==
  /\ QuoteOpen(s, k) # None
  /\ \E j \in (k + 1)..Len(s) : QuoteOpen(s, j) = None

C6_CommaInsideString ==
  \A k \in Commas(char_string) : InString(char_string, k) => ~BoundaryAt(k)

(* C7: whenever analyse returns, analyse of each attribute of its output   *)
(* returns too, and returns that one attribute.                            *)
C7_Idempotent ==
  pc = "done" =>
    \A i \in 1..Len(output) :
      /\ analyse(output[i]).pc = "done"
      /\ analyse(output[i]).output = <<output[i]>>

(* C9: on an input properly nested over (), [] and {} (and holding no <,   *)
(* >, quote or pipe) the open regions are at every point of the scan the   *)
(* brackets of the text that are open there, so that a region ends at its  *)
(* own closer; analyse returns, and the attribute boundaries are exactly   *)
(* the commas outside every bracket pair.                                  *)
Proper(s) ==
  /\ ~Has(s, {"<", ">", "|"} \cup Quotes)
  /\ WellNested(s, Openers3)

TopLevelCommas(s) == {k \in Commas(s) : Expect(s, k, Openers3) = <<>>}

C9_MixedNesting ==
  Proper(char_string) =>
    /\ pc # "panic"
    /\ [i \in 1..Len(stack) |-> stack[i].exit] = Expect(char_string, index, Openers3)
    /\ \A i \in 1..Len(stack) : stack[i].fn = "process_pairs"
    /\ pc = "done" => output = SplitAt(char_string, TopLevelCommas(char_string))

C9_Witness ==
  /\ pc = "done"
  /\ char_string = ExMixed
  /\ output = <<SubSeq(ExMixed, 1, 14), <<"d">>>>

(* C10: a pipe consumed inside a bracket region or a quote region never    *)
(* makes analyse fail: the scan goes on after it, and the pipe failure is  *)
(* only ever raised by the top-level driver.                               *)
C10_PipeInsideRegion ==
  /\ failure = "pipe" => stack = <<>>
  /\ (stack # <<>> /\ index > 0 /\ char_string[index] = "|") => pc = "scan"

C10_Witness ==
  /\ pc = "scan"
  /\ stack # <<>>
  /\ index = mark + 2
  /\ char_string[index] = "|"

----------------------------------------------------------------------------
(* C11: every scan ends, after at most length(input) successful advances.  *)
(* Each iteration of a running loop lowers Measure, which is never         *)
(* negative, and moves the cursor by one or leaves it where it is; the     *)
(* cursor never passes the end of the input, and is at the end of the      *)
(* input when analyse returns.                                             *)
Measure(st) ==
  2 * (length(st) - st.index) + Len(st.stack) + (IF st.pc = "scan" THEN 1 ELSE 0)

C11_Terminates ==
  /\ Measure(Cur) >= 0
  /\ index <= Len(char_string)
  /\ pc = "scan" =>
       /\ Measure(Step(Cur)) < Measure(Cur)
       /\ Step(Cur).index \in {index, index + 1}
  /\ pc = "done" => index = Len(char_string)

C11_Witness ==
  /\ pc = "done"
  /\ index = Len(char_string)
  /\ Len(char_string) >= 3
  /\ char_string[1] \in Openers4 \cup Quotes
  /\ ~Has(SubSeq(char_string, 2, Len(char_string)), Brackets \cup Quotes)

(* C12: the attribute pending at the end of the input is the last element  *)
(* of the output, trailing comma or not: it runs from the position after   *)
(* the last boundary (or from 0) to the end of the input, and it is        *)
(* closed, without shortening, only once the cursor is at the end; every   *)
(* attribute closed before is closed on a comma.                           *)
ClosedOnComma(i) ==
  /\ attributes[i].end < Len(char_string)
  /\ char_string[attributes[i].end + 1] = ","

Last == Len(attributes)

C12_PendingAttributeFlushed ==
  /\ pc \in {"scan", "panic"} => \A i \in 1..Len(attributes) : ClosedOnComma(i)
  /\ pc = "done" =>
       /\ index = Len(char_string)
       /\ Len(attributes) >= 1
       /\ \A i \in 1..(Last - 1) : ClosedOnComma(i)
       /\ attributes[Last].end = Len(char_string)
       /\ attributes[Last].start = IF Last = 1 THEN 0 ELSE attributes[Last - 1].end + 1
       /\ Len(output) = Last
       /\ output[Last] = trim(SubSeq(char_string, attributes[Last].start + 1, Len(char_string)))

C12_Witness ==
  /\ pc = "done"
  /\ Len(output) >= 2
  /\ output[Len(output)] # <<>>
  /\ char_string[Len(char_string)] # ","

(* C13: a misplaced pipe found by the top-level driver stops the scan at   *)
(* once: the cursor stays on the pipe, no step follows, and no attribute   *)
(* is returned, those closed before the pipe included.                     *)
C13_PipeFailureStops ==
  failure = "pipe" =>
    /\ pc = "panic"
    /\ ~ENABLED Next
    /\ char_string[index] = "|"
    /\ output = <<>>
    /\ \A i \in 1..Len(attributes) : attributes[i].end < index

C13_Witness ==
  /\ failure = "pipe"
  /\ pc = "panic"
  /\ Len(attributes) >= 1
  /\ index < Len(char_string)

----------------------------------------------------------------------------
(* C14: convert_builder and examine_builder fail with "Contains            *)
(* insufficient parameters" exactly when analyse returned fewer than two   *)
(* attributes, which is when no comma of the input is a boundary;          *)
(* otherwise the expression is attribute 0 and the format arguments are    *)
(* the attributes from 1 on, in their order, joined with ", ".             *)
RECURSIVE CommaSpaced(_, _)
CommaSpaced(strings, n) ==
  IF n = 0 THEN <<>>
  ELSE IF n = 1 THEN strings[1]
  ELSE CommaSpaced(strings, n - 1) \o <<",", " ">> \o strings[n]

Returned == pc \in {"built", "panic"} /\ built # NotBuilt

C14_TwoAttributesNeeded ==
  (Returned /\ caller \in {"convert_builder", "examine_builder"}) =>
    /\ (built.result = "Contains insufficient parameters") = (Len(output) < 2)
    /\ (Len(output) < 2) = ~(\E k \in Commas(char_string) : BoundaryAt(k))
    /\ (pc = "panic") = (Len(output) < 2)
    /\ Len(output) >= 2 =>
         /\ built.result = "ok"
         /\ built.expr = output[1]
         /\ built.message = CommaSpaced(Tail(output), Len(output) - 1)

C14_Witness ==
  /\ pc = "built"
  /\ caller \in {"convert_builder", "examine_builder"}
  /\ Len(output) >= 3
  /\ built.expr # <<>>

(* C20: whenever analyse returns, its output holds one attribute more than *)
(* the commas the top-level driver consumed, so at least one (the empty    *)
(* input gives one empty attribute, a trailing comma a final empty one);   *)
(* custom_builder never fails with "Contains insufficient parameters".     *)
BoundaryCommas == {k \in Commas(char_string) : BoundaryAt(k)}

C20_OutputNeverEmpty ==
  /\ pc = "scan" => Len(attributes) = Cardinality(BoundaryCommas)
  /\ pc \in {"done", "built"} =>
       /\ Len(output) = 1 + Cardinality(BoundaryCommas)
       /\ Len(output) >= 1
       /\ char_string = <<>> => output = << <<>> >>
       /\ (char_string # <<>> /\ char_string[Len(char_string)] = "," /\ BoundaryAt(Len(char_string)))
            => output[Len(output)] = <<>>
  /\ caller = "custom_builder" => failure # "insufficient"
  /\ (caller = "custom_builder" /\ pc = "built") => built.result = "ok"

C20_Witness ==
  /\ pc = "built"
  /\ caller = "custom_builder"
  /\ output = << <<>> >>

----------------------------------------------------------------------------
(* C15: inside a bracket region < is an ordinary character: it opens no    *)
(* nested region, and the region closes at the first occurrence of its     *)
(* closer that is not inside a nested (, [ or { region.  RegionsOpen is    *)
(* the regions open after s[1..n] when the text is read that way (at top   *)
(* level any of the four openers and either quote opens a region, a quote  *)
(* region ends at its quote); as long as input is left, these are the      *)
(* regions the scan has open.                                              *)
RECURSIVE RegionsOpen(_, _)
RegionsOpen(s, n) ==
  IF n = 0 THEN <<>>
  ELSE LET e == RegionsOpen(s, n - 1)
           in_pairs == e # <<>> /\ e[Len(e)].fn = "process_pairs"
       IN
       IF (e = <<>> /\ s[n] \in Openers4) \/ (in_pairs /\ s[n] \in Openers3)
         THEN Append(e, [fn |-> "process_pairs", exit |-> Closer(s[n])])
       ELSE IF e = <<>> /\ s[n] \in Quotes
         THEN Append(e, [fn |-> "process_quotes", exit |-> s[n]])
       ELSE IF e # <<>> /\ s[n] = e[Len(e)].exit THEN SubSeq(e, 1, Len(e) - 1)
       ELSE e

RegionExpect(s, n) == [i \in 1..Len(RegionsOpen(s, n)) |-> RegionsOpen(s, n)[i].exit]

C15_LessIsOrdinaryInRegion ==
  /\ (pc = "scan" /\ Where(Cur) = "process_pairs" /\ next_value(Cur) = "<") =>
       /\ PairsStep(Cur).stack = stack
       /\ PairsStep(Cur).index = index + 1
  /\ (pc = "scan" /\ index < Len(char_string)) =>
       stack = RegionsOpen(char_string, index)

C15_Witness ==
  /\ pc = "scan"
  /\ stack = <<>>
  /\ index >= 3
  /\ index < Len(char_string)
  /\ char_string[index] = ")"
  /\ \E k \in 2..(index - 1) :
       /\ char_string[k] = "<"
       /\ RegionExpect(char_string, k) = <<")">>
       /\ ~Has(SubSeq(char_string, k + 1, index - 1), {")"})

(* C16: a quote region closes only on the quote character that opened it:  *)
(* the other quote, brackets, commas and pipes inside it are ordinary.     *)
(* When the first quote of the input is met at top level, the region it    *)
(* opens stays open up to the next quote of the same kind, and no comma    *)
(* before that quote is a boundary.                                        *)
SameQuoteAfter(s, p) ==
  LET same == {e \in (p + 1)..Len(s) : s[e] = s[p]} IN
  IF same = {} THEN Len(s) + 1 ELSE Min(same)

QuoteFirst(s) == Has(s, Quotes) /\ ~Has(SubSeq(s, 1, FirstQuote(s) - 1), Openers4)

C16_QuoteClosesOnSameQuote ==
  /\ (pc = "scan" /\ Where(Cur) = "process_quotes"
        /\ next_value(Cur) \notin {None, Top(Cur).exit}) =>
       QuotesStep(Cur).stack = stack
  /\ (pc = "scan" /\ QuoteFirst(char_string)) =>
       LET p == FirstQuote(char_string)
           e == SameQuoteAfter(char_string, p) IN
       /\ (p <= index /\ index < e /\ index < Len(char_string)) =>
            stack = <<[fn |-> "process_quotes", exit |-> char_string[p]]>>
       /\ index = e => stack = <<>>
       /\ \A k \in Commas(char_string) : (p < k /\ k < e) => ~BoundaryAt(k)

C16_Witness ==
  /\ pc = "scan"
  /\ QuoteFirst(char_string)
  /\ char_string[FirstQuote(char_string)] = "\""
  /\ index = SameQuoteAfter(char_string, FirstQuote(char_string))
  /\ stack = <<>>
  /\ LET inside == SubSeq(char_string, FirstQuote(char_string) + 1, index - 1) IN
       Has(inside, {"'"}) /\ Has(inside, {","}) /\ Has(inside, Brackets)

(* C17: the cursor stays within 0 .. length(input); an advance before the  *)
(* end returns the character under the cursor and moves the cursor by      *)
(* exactly one, an advance at the end returns the end-marker and changes   *)
(* nothing; no step of the scan moves the cursor back.                     *)
C17_CursorAdvancesByOne ==
  /\ [](/\ index \in 0..Len(char_string)
        /\ index < Len(char_string) =>
             /\ next(Cur) = [Cur EXCEPT !.index = index + 1]
             /\ next_value(Cur) = char_string[index + 1]
        /\ index = Len(char_string) =>
             /\ next(Cur) = Cur
             /\ next_value(Cur) = None)
  /\ [][index' = index \/ index' = index + 1]_vars

C17_Witness ==
  /\ pc = "done"
  /\ index = Len(char_string)
  /\ Len(char_string) >= 4
  /\ Len(attributes) >= 2
  /\ Has(char_string, Openers3)

(* C18: mark never exceeds the cursor, and mark changes only when an       *)
(* attribute is closed, where it becomes the cursor; advancing and the     *)
(* bracket and quote consumers leave it alone.                             *)
C18_MarkMovesOnClose ==
  /\ [](mark <= index /\ next(Cur).mark = mark)
  /\ [][mark' # mark =>
          /\ mark' = index'
          /\ Len(attributes') = Len(attributes) + 1
          /\ attributes'[Len(attributes')].start = mark
          /\ stack = <<>>]_vars
  /\ [][stack # <<>> => mark' = mark]_vars

C18_Witness ==
  /\ pc = "scan"
  /\ mark > 0
  /\ index > mark + 1
  /\ stack # <<>>

(* C19: when analyse returns, the spans lie left to right: the first       *)
(* starts at 0, each later one starts one position (the comma) after the   *)
(* end of the one before, the last ends at length(input), and the texts of *)
(* the spans, untrimmed, joined with commas are the input.                 *)
SpanText(i) == SubSeq(char_string, attributes[i].start + 1, attributes[i].end)

RECURSIVE CommaJoined(_)
CommaJoined(n) ==
  IF n = 0 THEN <<>>
  ELSE IF n = 1 THEN SpanText(1)
  ELSE CommaJoined(n - 1) \o <<",">> \o SpanText(n)

C19_SpansCoverInput ==
  pc = "done" =>
    /\ attributes[1].start = 0
    /\ \A i \in 1..Len(attributes) : attributes[i].start <= attributes[i].end
    /\ \A i \in 2..Len(attributes) : attributes[i].start = attributes[i - 1].end + 1
    /\ attributes[Len(attributes)].end = Len(char_string)
    /\ CommaJoined(Len(attributes)) = char_string

C19_Witness ==
  /\ pc = "done"
  /\ Len(attributes) >= 3
  /\ \E i \in 1..Len(attributes) : Len(SpanText(i)) >= 2
  /\ \E i \in 1..Len(attributes) : SpanText(i) = <<>>

----------------------------------------------------------------------------
(* C21: the bracket-region consumer does not read quotes: inside a bracket *)
(* region ' and " are ordinary characters, and the region closes at the    *)
(* first closer it waits for, between two quote characters or not.         *)
(* PairsOnly is the closers expected after s[p..n], s[p] being an opener   *)
(* met at top level, when only brackets are read.  On an input whose first *)
(* opener or quote is an opener, the region it opens is open up to the     *)
(* first position where PairsOnly is empty and closed there, and no comma  *)
(* before that position is a boundary.                                     *)
RECURSIVE PairsOnly(_, _, _)
PairsOnly(s, p, n) ==
  IF n = p THEN <<Closer(s[p])>>
  ELSE LET e == PairsOnly(s, p, n - 1) IN
       IF e = <<>> THEN e
       ELSE IF s[n] \in Openers3 THEN Append(e, Closer(s[n]))
       ELSE IF s[n] = e[Len(e)] THEN SubSeq(e, 1, Len(e) - 1)
       ELSE e

OpenerFirst(s) ==
  /\ Has(s, Openers4 \cup Quotes)
  /\ s[FirstOf(s, Openers4 \cup Quotes)] \in Openers4

RegionEnd(s, p) ==
  LET ends == {n \in (p + 1)..Len(s) : PairsOnly(s, p, n) = <<>>} IN
  IF ends = {} THEN Len(s) + 1 ELSE Min(ends)

C21_QuotesOrdinaryInRegion ==
  /\ (pc = "scan" /\ Where(Cur) = "process_pairs" /\ next_value(Cur) \in Quotes) =>
       /\ PairsStep(Cur).stack = stack
       /\ PairsStep(Cur).index = index + 1
  /\ \A i \in 1..Len(stack) :
       (stack[i].fn = "process_quotes") => i = 1
  /\ (pc = "scan" /\ OpenerFirst(char_string)) =>
       LET p == FirstOf(char_string, Openers4 \cup Quotes)
           e == RegionEnd(char_string, p) IN
       /\ (p <= index /\ index < e /\ index < Len(char_string)) =>
            /\ [i \in 1..Len(stack) |-> stack[i].exit] = PairsOnly(char_string, p, index)
            /\ \A i \in 1..Len(stack) : stack[i].fn = "process_pairs"
       /\ index = e => stack = <<>>
       /\ \A k \in Commas(char_string) : (p < k /\ k < e) => ~BoundaryAt(k)

C21_Witness ==
  /\ pc = "scan"
  /\ OpenerFirst(char_string)
  /\ index = RegionEnd(char_string, FirstOf(char_string, Openers4 \cup Quotes))
  /\ index >= 3
  /\ index < Len(char_string)
  /\ stack = <<>>
  /\ char_string[index - 1] = "\""
  /\ char_string[index + 1] = "\""
  /\ QuoteOpen(char_string, index) = "\""

(* C22: every recorded span lies within the input, 0 <= start <= end <=    *)
(* length(input): an attribute is closed on a comma only with the cursor   *)
(* at least one past the mark, so shortening by one never goes below the   *)
(* mark (or below zero), and every slice get_string_attributes takes is in *)
(* range.                                                                  *)
C22_SpansInRange ==
  /\ \A i \in 1..Len(attributes) :
       /\ 0 <= attributes[i].start
       /\ attributes[i].start <= attributes[i].end
       /\ attributes[i].end <= Len(char_string)
  /\ (pc = "scan" /\ Where(Cur) = "analyse" /\ AnalyseArm(Cur) = "comma") =>
       /\ next(Cur).index >= next(Cur).mark + 1
       /\ AnalyseStep(Cur).attributes[Len(attributes) + 1].end >= mark
  /\ pc = "done" =>
       \A i \in 1..Len(output) :
         Len(output[i]) <= attributes[i].end - attributes[i].start

C22_Witness ==
  /\ pc = "done"
  /\ Len(attributes) >= 3
  /\ attributes[1].start = attributes[1].end
  /\ \E i \in 2..Len(attributes) : attributes[i].start = attributes[i].end
  /\ \E i \in 2..Len(attributes) : attributes[i].start < attributes[i].end

====
